---------------------------- MODULE Spec2Model ----------------------------
(***************************************************************************)
(* The sender control loop of src/docker/sender_reno.py (TCP Reno) and of  *)
(* src/docker/sender_fixed_sliding_window.py (fixed window), with the      *)
(* transfer planning that precedes it.                                     *)
(*                                                                         *)
(* A payload is modelled by its length, a chunk by its length, a segment   *)
(* by <<seq_id, length>>.  cwnd, a Python float, is an exact fraction      *)
(* [n, d] in lowest terms.  Timestamps are abstracted to the place that    *)
(* recorded them.                                                          *)
(***************************************************************************)
EXTENDS Integers, Sequences, FiniteSets, TLC

VARIABLES
    variant,            \* "reno" | "fixed": which of the two senders runs
    dataLen,            \* len(data), the payload read by load_payload_chunks
    mss,                \* the segment payload size (MSS)
    pc,                 \* "plan" | "run" | "done" | "exited" | "aborted"
    transfers,          \* the list of (seq_id, payload) built by main
    base,
    next_seq_num,
    packet_start_times, \* seq_id -> "first" | "retx" (who recorded the time)
    packet_delays,      \* the seq_ids a delay sample was appended for
    cwnd,
    ssthresh,
    dup_acks,
    prev_ack_id,        \* None or Some(ack_id)
    in_fast_recovery,
    ack_id,             \* the offset of the datagram recvfrom returned last
    out,                \* the datagrams the last step handed to sendto
    event,              \* what the last step of the loop was
    run_len,            \* new acks since the start, -1 after any other event
    before,             \* cwnd and ssthresh when the last datagram or timeout came
    recovery_hist,      \* since the last new ack: "none" | "entered" (fast recovery
                        \* entered) | "timed_out" (then left by a timeout) |
                        \* "reentered" (then entered once more)
    timeouts,           \* receive timeouts in a row against the arbitrary peer,
                        \* counted up to MaxTimeouts
    segChan,            \* sender -> receiver datagrams in flight
    ackChan,            \* receiver -> sender datagrams in flight
    rcvd,               \* receiver: the seq_ids it holds
    dups                \* duplications the channel has made so far

senderVars == <<base, next_seq_num, packet_start_times, packet_delays, cwnd,
                ssthresh, dup_acks, prev_ack_id, in_fast_recovery, ack_id>>
planVars   == <<variant, dataLen, mss, transfers>>
netVars    == <<segChan, ackChan, rcvd, dups>>
ghostVars  == <<out, event, run_len, before, recovery_hist, timeouts>>
vars       == <<planVars, pc, senderVars, ghostVars, netVars>>

(***************************************************************************)
(* Bounds of the model.                                                    *)
(***************************************************************************)
MaxLen      == 3      \* payload lengths 0..MaxLen in the control-loop model
MaxMss      == 2      \* segment sizes 1..MaxMss in the control-loop model
MaxBehind   == 5      \* an arbitrary peer acks offsets -MaxBehind..len(data)+1
MaxCwnd     == 20     \* the loop is followed while int(cwnd) <= MaxCwnd
MaxCwndNum  == 30000  \* ... and while the numerator of cwnd stays below this
NetMaxLen   == 3      \* payload lengths 1..NetMaxLen against the receiver
LiveMaxLen  == 1      \* payload lengths 0..LiveMaxLen in the liveness model
MaxDup      == 1      \* datagrams the channel delivers twice
PlanMaxLen  == 12     \* payload lengths 0..PlanMaxLen in the planning model
PlanMaxMss  == 5      \* segment sizes 1..PlanMaxMss in the planning model
MaxTimeouts == 12     \* timeouts in a row are counted up to this number

(***************************************************************************)
(* Program constants.                                                      *)
(***************************************************************************)
WINDOW_SIZE      == 100
INITIAL_SSTHRESH == 64
MAX_TIMEOUTS     == 10

Max(a, b) == IF a >= b THEN a ELSE b
Min(a, b) == IF a <= b THEN a ELSE b

None    == <<>>
Some(a) == <<a>>

(***************************************************************************)
(* Floats as exact fractions.                                              *)
(***************************************************************************)
RECURSIVE GCD(_, _)
GCD(a, b) == IF b = 0 THEN a ELSE GCD(b, a % b)

Float(k)      == [n |-> k, d |-> 1]                    \* float(k)
Frac(n, d)    == [n |-> n \div GCD(n, d), d |-> d \div GCD(n, d)]
IntPart(c)    == c.n \div c.d                          \* int(c), c >= 0
FloorDiv2(c)  == c.n \div (2 * c.d)                    \* int(c // 2)
LessInt(c, k) == c.n < k * c.d                         \* c < k
PlusOne(c)    == Frac(c.n + c.d, c.d)                  \* c + 1.0
PlusInverse(c) == Frac(c.n * c.n + c.d * c.d, c.n * c.d)   \* c + 1.0 / c
AtLeastOne(c) == IF c.n < c.d THEN Float(1) ELSE c     \* max(c, 1.0)

(***************************************************************************)
(* Planning: load_payload_chunks and the loop of main that numbers them.   *)
(***************************************************************************)
\* [data[i : i + MSS] for i in range(0, len(data), MSS)], as chunk lengths
RECURSIVE ChunksFrom(_, _, _)
ChunksFrom(i, len, m) ==
    IF i >= len THEN <<>>
    ELSE <<Min(m, len - i)>> \o ChunksFrom(i + m, len, m)

\* a slicing that drops the short last chunk
load_payload_chunks_whole_only(len, m) == ChunksFrom(0, len - (len % m), m)

load_payload_chunks(len, m) == ChunksFrom(0, len, m)

\* for chunk in demo_chunks: transfers.append((seq, chunk)); seq += len(chunk)
RECURSIVE NumberChunks(_, _)
NumberChunks(chunks, seq) ==
    IF chunks = <<>> THEN <<>>
    ELSE <<[seq |-> seq, len |-> Head(chunks)]>>
         \o NumberChunks(Tail(chunks), seq + Head(chunks))

RECURSIVE SumSeq(_)
SumSeq(s) == IF s = <<>> THEN 0 ELSE Head(s) + SumSeq(Tail(s))

\* the EOF marker appended after the loop: transfers.append((seq, b""))
EofMarker(chunks) == [seq |-> SumSeq(chunks), len |-> 0]

BuildTransfers(len, m) ==
    LET demo_chunks == load_payload_chunks(len, m)
    IN  NumberChunks(demo_chunks, 0) \o <<EofMarker(demo_chunks)>>

NTransfers == Len(transfers)              \* len(transfers)
SeqIdAt(i) == transfers[i + 1].seq        \* transfers[i][0], i counted from 0

(***************************************************************************)
(* Datagrams.                                                              *)
(***************************************************************************)
DataPkt(i)   == [kind |-> "data", seq |-> SeqIdAt(i), idx |-> i]
\* a close acknowledgment that does not echo the offset of the fin
FinAckPktZero(a) == [kind |-> "FIN/ACK", seq |-> 0, idx |-> -1]

FinAckPkt(a) == [kind |-> "FIN/ACK", seq |-> a, idx |-> -1]

FIN  == <<"f", "i", "n">>
ACK  == <<"a", "c", "k">>
Texts == {ACK, FIN, <<"f", "i", "n", "!">>}

\* a test for the text in capitals, which the receiver never sends
StartsWithFinUpper(msg) == Len(msg) >= 3 /\ SubSeq(msg, 1, 3) = <<"F", "I", "N">>

\* msg.startswith("fin")
StartsWithFin(msg) == Len(msg) >= 3 /\ SubSeq(msg, 1, 3) = FIN

(***************************************************************************)
(* The state after construction: main up to the first test of the loop.    *)
(***************************************************************************)
InitWith(lens, sizes, variants) ==
    /\ variant \in variants
    /\ dataLen \in lens
    /\ mss \in sizes
    /\ pc = "plan"
    /\ transfers = <<>>
    /\ base = 0
    /\ next_seq_num = 0
    /\ packet_start_times = <<>>
    /\ packet_delays = <<>>
    /\ cwnd = Float(1)
    /\ ssthresh = INITIAL_SSTHRESH
    /\ dup_acks = 0
    /\ prev_ack_id = None
    /\ in_fast_recovery = FALSE
    /\ ack_id = 0
    /\ out = <<>>
    /\ event = "init"
    /\ run_len = 0
    /\ before = [cwnd |-> Float(1), ssthresh |-> INITIAL_SSTHRESH]
    /\ recovery_hist = "none"
    /\ timeouts = 0
    /\ segChan = {}
    /\ ackChan = {}
    /\ rcvd = {}
    /\ dups = 0

Init == InitWith(0..MaxLen, 1..MaxMss, {"reno", "fixed"})

\* main, lines building `transfers`
Plan ==
    /\ pc = "plan"
    /\ transfers' = BuildTransfers(dataLen, mss)
    /\ pc' = "run"
    /\ event' = "plan"
    /\ UNCHANGED <<variant, dataLen, mss, senderVars, out, run_len, before,
                   recovery_hist, timeouts, netVars>>

(***************************************************************************)
(* Window State.                                                           *)
(***************************************************************************)
\* max(int(cwnd), 1) in the Reno sender, WINDOW_SIZE in the fixed one
Window == IF variant = "reno" THEN Max(IntPart(cwnd), 1) ELSE WINDOW_SIZE

\* a window test that admits one segment too many
RoomInclusive == next_seq_num <= base + Window /\ next_seq_num < NTransfers

\* the condition of the inner `while`
Room == next_seq_num < base + Window /\ next_seq_num < NTransfers

\* if seq_id not in packet_start_times: packet_start_times[seq_id] = time.time()
RecordFirst(times, s) == IF s \in DOMAIN times THEN times ELSE (s :> "first") @@ times

\* packet_start_times[seq_id] = time.time()
Overwrite(times, s) == (s :> "retx") @@ times

\* a slide that also passes the segment whose offset equals the ack
RECURSIVE AdvanceBaseInclusive(_, _)
AdvanceBaseInclusive(b, a) ==
    IF b < NTransfers /\ SeqIdAt(b) <= a THEN AdvanceBaseInclusive(b + 1, a) ELSE b

\* while base < len(transfers) and transfers[base][0] < ack_id: base += 1
RECURSIVE AdvanceBase(_, _)
AdvanceBase(b, a) ==
    IF b < NTransfers /\ SeqIdAt(b) < a THEN AdvanceBase(b + 1, a) ELSE b

\* an ack equal to the offset at base taken as acknowledging that segment
NewBaseInclusive(a) ==
    IF a >= SeqIdAt(base) THEN AdvanceBaseInclusive(base, a) ELSE base

\* if ack_id > current_base_seq: <the loop above>
NewBase(a) == IF a > SeqIdAt(base) THEN AdvanceBase(base, a) ELSE base

\* a sample for every segment behind the new base, not only the ones passed
DelaysForFromStart(b, b2) ==
    IF b >= b2 THEN <<>> ELSE [k \in 1..b2 |-> SeqIdAt(k - 1)]

\* the samples appended while base moves from b to b2
RECURSIVE DelaysFor(_, _)
DelaysFor(b, b2) ==
    IF b >= b2 THEN <<>>
    ELSE (IF SeqIdAt(b) \in DOMAIN packet_start_times THEN <<SeqIdAt(b)>> ELSE <<>>)
         \o DelaysFor(b + 1, b2)

(***************************************************************************)
(* Congestion Controller.                                                  *)
(***************************************************************************)
\* halving without the floor of 1
HalfWindowUnclamped(c) == FloorDiv2(c)

\* halving that rounds up
HalfWindowCeil(c) == Max((c.n + 2 * c.d - 1) \div (2 * c.d), 1)

\* max(int(cwnd // 2), 1)
HalfWindow(c) == Max(FloorDiv2(c), 1)

\* textbook slow start taken per ack: the window doubles
NewAckCwndDoubling(c, st, fr) ==
    AtLeastOne(IF fr THEN Float(st)
               ELSE IF LessInt(c, st) THEN Frac(2 * c.n, c.d) ELSE PlusInverse(c))

\* a deflation that is followed by the increment of an ordinary new ack
NewAckCwndDeflateGrow(c, st, fr) ==
    AtLeastOne(IF fr THEN PlusOne(Float(st))
               ELSE IF LessInt(c, st) THEN PlusOne(c) ELSE PlusInverse(c))

\* the new value of cwnd on a new cumulative ack
NewAckCwnd(c, st, fr) ==
    AtLeastOne(IF fr THEN Float(st)
               ELSE IF LessInt(c, st) THEN PlusOne(c) ELSE PlusInverse(c))

\* float(ssthresh) + 3.0
RecoveryCwnd(st) == Float(st + 3)

\* cwnd = 1.0 in the timeout handler
TimeoutCwndKept(c) == c
TimeoutCwnd(c) == Float(1)

IsNewAck(a) == IF prev_ack_id = None THEN TRUE ELSE a > prev_ack_id[1]
IsDupAck(a) == IF prev_ack_id = None THEN FALSE ELSE a = prev_ack_id[1]

\* the part of the loop the model follows: cwnd stays representable
Followed(a) ==
    \/ variant = "fixed"
    \/ IsNewAck(a) /\ in_fast_recovery /\ ssthresh <= MaxCwnd
    \/ IsNewAck(a) /\ ~in_fast_recovery /\ LessInt(cwnd, ssthresh)
          /\ IntPart(cwnd) < MaxCwnd
    \/ IsNewAck(a) /\ ~in_fast_recovery /\ ~LessInt(cwnd, ssthresh)
          /\ cwnd.n <= MaxCwndNum /\ IntPart(cwnd) < MaxCwnd
    \/ IsDupAck(a) /\ in_fast_recovery /\ IntPart(cwnd) < MaxCwnd
    \/ IsDupAck(a) /\ ~in_fast_recovery
    \/ ~IsNewAck(a) /\ ~IsDupAck(a)

(***************************************************************************)
(* Control Loop.                                                           *)
(***************************************************************************)
\* one iteration of the inner `while`: send the segment at the frontier
SendSegment ==
    /\ pc = "run"
    /\ base < NTransfers
    /\ Room
    /\ out' = <<DataPkt(next_seq_num)>>
    /\ segChan' = segChan \cup {DataPkt(next_seq_num)}
    /\ packet_start_times' = RecordFirst(packet_start_times, SeqIdAt(next_seq_num))
    /\ next_seq_num' = next_seq_num + 1
    /\ event' = "send"
    /\ UNCHANGED <<planVars, pc, base, packet_delays, cwnd, ssthresh, dup_acks,
                   prev_ack_id, in_fast_recovery, ack_id, run_len, before,
                   recovery_hist, timeouts, ackChan, rcvd, dups>>

\* recvfrom returned and the inner `while` has ended
Blocked == pc = "run" /\ base < NTransfers /\ ~Room

\* if msg.startswith("fin"): reply FIN/ACK and return
HandleFin(a) ==
    /\ Blocked
    /\ ack_id' = a
    /\ out' = <<FinAckPkt(a)>>
    /\ segChan' = segChan \cup {FinAckPkt(a)}
    /\ pc' = "done"
    /\ event' = "fin"
    /\ before' = [cwnd |-> cwnd, ssthresh |-> ssthresh]
    /\ UNCHANGED <<planVars, base, next_seq_num, packet_start_times, packet_delays,
                   cwnd, ssthresh, dup_acks, prev_ack_id, in_fast_recovery, run_len,
                   recovery_hist, timeouts>>

\* the window slide of both senders
SlideWindow(a) ==
    /\ base' = NewBase(a)
    /\ packet_delays' = packet_delays \o DelaysFor(base, NewBase(a))

\* the loop condition `while base < len(transfers)` tested after the handler
AfterHandler(b) == IF b < NTransfers THEN "run" ELSE "exited"

\* if prev_ack_id is None or ack_id > prev_ack_id: ...
RenoNewAck(a) ==
    /\ IsNewAck(a)
    /\ prev_ack_id' = Some(a)
    /\ cwnd' = NewAckCwnd(cwnd, ssthresh, in_fast_recovery)
    /\ in_fast_recovery' = FALSE
    /\ dup_acks' = 0
    /\ out' = <<>>
    /\ pc' = AfterHandler(NewBase(a))
    /\ event' = "new_ack"
    /\ run_len' = IF run_len >= 0 THEN run_len + 1 ELSE run_len
    /\ recovery_hist' = "none"
    /\ UNCHANGED <<next_seq_num, packet_start_times, ssthresh, segChan>>

\* triple-duplicate detection that stays armed in fast recovery: the third
\* duplicate ack there halves ssthresh and retransmits once more
RenoDupAckNested(a) ==
    /\ IsDupAck(a)
    /\ in_fast_recovery
    /\ IF dup_acks + 1 = 3
       THEN /\ ssthresh' = HalfWindow(cwnd)
            /\ cwnd' = RecoveryCwnd(HalfWindow(cwnd))
            /\ dup_acks' = 0
            /\ out' = <<DataPkt(base)>>
            /\ segChan' = segChan \cup {DataPkt(base)}
            /\ packet_start_times' = Overwrite(packet_start_times, SeqIdAt(base))
            /\ recovery_hist' = "reentered"
       ELSE /\ dup_acks' = dup_acks + 1
            /\ cwnd' = PlusOne(cwnd)
            /\ out' = <<>>
            /\ UNCHANGED <<ssthresh, segChan, packet_start_times, recovery_hist>>
    /\ pc' = AfterHandler(NewBase(a))
    /\ event' = "dup_ack"
    /\ run_len' = -1
    /\ UNCHANGED <<next_seq_num, prev_ack_id, in_fast_recovery>>

\* elif ack_id == prev_ack_id: ... if in_fast_recovery: ...
RenoDupAckInRecovery(a) ==
    /\ IsDupAck(a)
    /\ in_fast_recovery
    /\ dup_acks' = dup_acks + 1
    /\ cwnd' = PlusOne(cwnd)
    /\ IF next_seq_num < NewBase(a) + IntPart(PlusOne(cwnd)) /\ next_seq_num < NTransfers
       THEN /\ out' = <<DataPkt(next_seq_num)>>
            /\ segChan' = segChan \cup {DataPkt(next_seq_num)}
            /\ packet_start_times' =
                   RecordFirst(packet_start_times, SeqIdAt(next_seq_num))
            /\ next_seq_num' = next_seq_num + 1
       ELSE /\ out' = <<>>
            /\ UNCHANGED <<segChan, packet_start_times, next_seq_num>>
    /\ pc' = AfterHandler(NewBase(a))
    /\ event' = "dup_ack"
    /\ run_len' = -1
    /\ UNCHANGED <<ssthresh, prev_ack_id, in_fast_recovery, recovery_hist>>

\* elif (dup_acks == 3): fast retransmit, enter fast recovery
RenoTripleDupAck(a) ==
    /\ IsDupAck(a)
    /\ ~in_fast_recovery
    /\ dup_acks + 1 = 3
    /\ ssthresh' = HalfWindow(cwnd)
    /\ cwnd' = RecoveryCwnd(HalfWindow(cwnd))
    /\ dup_acks' = 0
    /\ in_fast_recovery' = TRUE
    /\ IF NewBase(a) < NTransfers
       THEN /\ out' = <<DataPkt(NewBase(a))>>
            /\ segChan' = segChan \cup {DataPkt(NewBase(a))}
            /\ packet_start_times' = Overwrite(packet_start_times, SeqIdAt(NewBase(a)))
            /\ pc' = "run"
       ELSE \* transfers[base] raises IndexError
            /\ out' = <<>>
            /\ pc' = "aborted"
            /\ UNCHANGED <<segChan, packet_start_times>>
    /\ event' = "dup_ack"
    /\ run_len' = -1
    /\ recovery_hist' = IF recovery_hist = "none" THEN "entered" ELSE "reentered"
    /\ UNCHANGED <<next_seq_num, prev_ack_id>>

\* a duplicate ack that is neither in recovery nor the third
RenoDupAckCounted(a) ==
    /\ IsDupAck(a)
    /\ ~in_fast_recovery
    /\ dup_acks + 1 # 3
    /\ dup_acks' = dup_acks + 1
    /\ out' = <<>>
    /\ pc' = AfterHandler(NewBase(a))
    /\ event' = "dup_ack"
    /\ run_len' = -1
    /\ UNCHANGED <<next_seq_num, packet_start_times, cwnd, ssthresh, prev_ack_id,
                   in_fast_recovery, segChan, recovery_hist>>

\* an ack below prev_ack_id: neither branch of the if/elif
RenoOldAck(a) ==
    /\ ~IsNewAck(a)
    /\ ~IsDupAck(a)
    /\ out' = <<>>
    /\ pc' = AfterHandler(NewBase(a))
    /\ event' = "old_ack"
    /\ run_len' = -1
    /\ UNCHANGED <<next_seq_num, packet_start_times, cwnd, ssthresh, dup_acks,
                   prev_ack_id, in_fast_recovery, segChan, recovery_hist>>

\* the fixed-window sender has no congestion state
FixedAck(a) ==
    /\ out' = <<>>
    /\ pc' = AfterHandler(NewBase(a))
    /\ event' = "ack"
    /\ run_len' = -1
    /\ UNCHANGED <<next_seq_num, packet_start_times, cwnd, ssthresh, dup_acks,
                   prev_ack_id, in_fast_recovery, segChan, recovery_hist>>

\* a datagram that is not a fin: slide the window, then the congestion rules
HandleAck(a) ==
    /\ Blocked
    /\ Followed(a)
    /\ ack_id' = a
    /\ before' = [cwnd |-> cwnd, ssthresh |-> ssthresh]
    /\ SlideWindow(a)
    /\ IF variant = "reno"
       THEN \/ RenoNewAck(a)
            \/ RenoDupAckInRecovery(a)
            \/ RenoTripleDupAck(a)
            \/ RenoDupAckCounted(a)
            \/ RenoOldAck(a)
       ELSE FixedAck(a)
    /\ UNCHANGED planVars

\* a reset to one segment before the window instead of its start
TimeoutNextBehind == Max(base - 1, 0)

\* next_seq_num = base
TimeoutNext == base

\* a retry ceiling: the loop gives up after MAX_TIMEOUTS timeouts in a row
AfterTimeoutLimited(k) == IF k > MAX_TIMEOUTS THEN "aborted" ELSE "run"

\* `continue`: back to the test of the loop, whatever the number of timeouts
AfterTimeout(k) == "run"

\* a timeout handler that forgets to clear the duplicate-ack counter
RenoTimeoutKeepsCount ==
    /\ next_seq_num' = TimeoutNext
    /\ ssthresh' = HalfWindow(cwnd)
    /\ cwnd' = TimeoutCwnd(cwnd)
    /\ in_fast_recovery' = FALSE
    /\ out' = <<DataPkt(base)>>
    /\ segChan' = segChan \cup {DataPkt(base)}
    /\ packet_start_times' = Overwrite(packet_start_times, SeqIdAt(base))
    /\ UNCHANGED dup_acks

\* except socket.timeout, Reno sender
RenoTimeout ==
    /\ next_seq_num' = TimeoutNext
    /\ ssthresh' = HalfWindow(cwnd)
    /\ cwnd' = TimeoutCwnd(cwnd)
    /\ dup_acks' = 0
    /\ in_fast_recovery' = FALSE
    /\ out' = <<DataPkt(base)>>
    /\ segChan' = segChan \cup {DataPkt(base)}
    /\ packet_start_times' = Overwrite(packet_start_times, SeqIdAt(base))

\* except socket.timeout, fixed-window sender
FixedTimeout ==
    /\ next_seq_num' = TimeoutNext
    /\ out' = <<>>
    /\ UNCHANGED <<ssthresh, cwnd, dup_acks, in_fast_recovery, segChan,
                   packet_start_times>>

HandleTimeout ==
    /\ Blocked
    /\ IF variant = "reno" THEN RenoTimeout ELSE FixedTimeout
    /\ pc' = AfterTimeout(timeouts + 1)
    /\ recovery_hist' = IF recovery_hist \in {"entered", "reentered"}
                        THEN "timed_out" ELSE recovery_hist
    /\ event' = "timeout"
    /\ run_len' = -1
    /\ before' = [cwnd |-> cwnd, ssthresh |-> ssthresh]
    /\ UNCHANGED <<planVars, base, packet_delays, prev_ack_id, ack_id>>

(***************************************************************************)
(* The loop against an arbitrary peer: recvfrom returns any datagram, or   *)
(* times out, whenever the sender waits.                                   *)
(***************************************************************************)
AckIds == (-MaxBehind)..(dataLen + 1)

RecvFin ==
    \E a \in AckIds, msg \in Texts :
        /\ StartsWithFin(msg)
        /\ HandleFin(a)
        /\ UNCHANGED <<ackChan, rcvd, dups>>

RecvAck ==
    \E a \in AckIds, msg \in Texts :
        /\ ~StartsWithFin(msg)
        /\ HandleAck(a)
        /\ timeouts' = 0
        /\ UNCHANGED <<ackChan, rcvd, dups>>

Timeout ==
    /\ HandleTimeout
    /\ timeouts' = Min(timeouts + 1, MaxTimeouts)
    /\ UNCHANGED <<ackChan, rcvd, dups>>

Next == Plan \/ SendSegment \/ RecvAck \/ RecvFin \/ Timeout

Spec == Init /\ [][Next]_vars

(***************************************************************************)
(* The loop against the receiver of the protocol, over a channel that      *)
(* loses, duplicates and reorders datagrams.  The receiver is not part of  *)
(* the repository: it acknowledges every segment it receives with the next *)
(* offset it expects, and sends fin when the empty segment arrives with    *)
(* all the payload before it received.  The channel is followed while the  *)
(* sender runs.                                                            *)
(***************************************************************************)
AckDatagram(a) == [id |-> a, msg |-> ACK]
FinDatagram(a) == [id |-> a, msg |-> FIN]

\* the segments the receiver still misses
Missing(r) == {i \in 0..(NTransfers - 1) : i \notin r}

\* the next offset the receiver expects once it holds the segments r
NextExpected(r) ==
    IF Missing(r) = {} THEN dataLen
    ELSE SeqIdAt(CHOOSE i \in Missing(r) : \A j \in Missing(r) : i <= j)

\* what the receiver sends back on segment i, holding r afterwards
ReceiverReplies(i, r) ==
    {AckDatagram(NextExpected(r))}
        \cup (IF transfers[i + 1].len = 0 /\ Missing(r) = {}
              THEN {FinDatagram(NextExpected(r))} ELSE {})

senderSide == <<planVars, pc, senderVars, ghostVars>>

\* the channel hands segment i to the receiver
ReceiveSegment(i, keep) ==
    /\ pc = "run"
    /\ \E p \in segChan :
          /\ p.kind = "data"
          /\ p.idx = i
          /\ segChan' = IF keep THEN segChan ELSE segChan \ {p}
    /\ rcvd' = rcvd \cup {i}
    /\ ackChan' = ackChan \cup ReceiverReplies(i, rcvd \cup {i})
    /\ dups' = IF keep THEN dups + 1 ELSE dups
    /\ UNCHANGED senderSide

DeliverSegment(i) == ReceiveSegment(i, FALSE)

DuplicateSegment ==
    /\ dups < MaxDup
    /\ \E i \in 0..NetMaxLen : ReceiveSegment(i, TRUE)

LoseSegment ==
    /\ pc = "run"
    /\ \E p \in segChan : segChan' = segChan \ {p}
    /\ UNCHANGED <<senderSide, ackChan, rcvd, dups>>

NetDatagrams ==
    {AckDatagram(a) : a \in 0..NetMaxLen} \cup {FinDatagram(a) : a \in 0..NetMaxLen}

\* recvfrom returns datagram d, which the channel had in flight
NetRecv(d, keep) ==
    /\ d \in ackChan
    /\ IF StartsWithFin(d.msg) THEN HandleFin(d.id) ELSE HandleAck(d.id)
    /\ ackChan' = IF keep THEN ackChan ELSE ackChan \ {d}
    /\ dups' = IF keep THEN dups + 1 ELSE dups
    /\ UNCHANGED <<rcvd, timeouts>>

DeliverAck(d) == NetRecv(d, FALSE)

DuplicateAck ==
    /\ dups < MaxDup
    /\ \E d \in NetDatagrams : NetRecv(d, TRUE)

\* a datagram lost while the sender is not waiting is lost when it next
\* waits: nothing reads the channel in between
LoseAck ==
    /\ Blocked
    /\ \E d \in ackChan : ackChan' = ackChan \ {d}
    /\ UNCHANGED <<senderSide, segChan, rcvd, dups>>

\* recvfrom times out: whatever is in flight is late
NetTimeout ==
    /\ HandleTimeout
    /\ UNCHANGED <<ackChan, rcvd, dups, timeouts>>

NetSender == Plan \/ SendSegment \/ NetTimeout \/ \E d \in NetDatagrams : DeliverAck(d)

NetChannel ==
    \/ \E i \in 0..NetMaxLen : DeliverSegment(i)
    \/ DuplicateSegment
    \/ LoseSegment
    \/ DuplicateAck
    \/ LoseAck

NextNet == NetSender \/ NetChannel

InitNet == InitWith(1..NetMaxLen, {1}, {"reno", "fixed"})

SpecNet == InitNet /\ [][NextNet]_vars

\* the sender always runs; a datagram that is in flight again and again is
\* delivered
InitLive == InitWith(0..LiveMaxLen, {1}, {"reno"})

SpecLive ==
    /\ InitLive
    /\ [][NextNet]_vars
    /\ WF_vars(NetSender)
    /\ \A i \in 0..LiveMaxLen : SF_vars(DeliverSegment(i))
    /\ \A a \in 0..LiveMaxLen : SF_vars(DeliverAck(AckDatagram(a)))
    /\ SF_vars(\E a \in 0..LiveMaxLen : DeliverAck(FinDatagram(a)))

(***************************************************************************)
(* Planning alone, over more payload lengths and segment sizes.            *)
(***************************************************************************)
InitPlan == InitWith(0..PlanMaxLen, 1..PlanMaxMss, {"reno", "fixed"})

NextPlan == Plan

SpecPlan == InitPlan /\ [][NextPlan]_vars

(***************************************************************************)
(* Properties.                                                             *)
(***************************************************************************)
Reno == variant = "reno"

\* a step of the loop that handled a datagram that is not a fin
AckStep == pc = "run" /\ event' \in {"new_ack", "dup_ack", "old_ack", "ack"}
TimeoutStep == pc = "run" /\ event' = "timeout"
FinStep == pc = "run" /\ event' = "fin"

\* the only datagram the last step sent is segment i
SentOnlySegment(o, i) ==
    Len(o) = 1 /\ o[1].kind = "data" /\ o[1].idx = i /\ o[1].seq = SeqIdAt(i)

\* C1: 0 <= base <= next_seq_num <= len(transfers) in every reachable state
\* of both senders.
C1_WindowBounds ==
    pc # "plan" =>
        (0 <= base /\ base <= next_seq_num /\ next_seq_num <= NTransfers)

\* C2: in the Reno sender cwnd >= 1.0 and ssthresh >= 1 in every reachable
\* state, whatever new acks, duplicate acks and timeouts came.
C2_CwndSsthreshAtLeastOne ==
    Reno => (cwnd.n >= cwnd.d /\ cwnd.d >= 1 /\ ssthresh >= 1)

\* the floor of 1 decided: a timeout at cwnd = 1.0 left ssthresh = 1
C2_Witness ==
    Reno /\ event = "timeout" /\ before.cwnd = Float(1) /\ ssthresh = 1

\* C3: base never decreases; next_seq_num decreases only in a timeout step,
\* and then to exactly base.
C3_WindowMonotone ==
    [][/\ base' >= base
       /\ next_seq_num' < next_seq_num =>
             (TimeoutStep /\ next_seq_num' = base /\ base' = base)]_vars

\* a timeout has pulled next_seq_num back to a base that had advanced
C3_Witness ==
    event = "timeout" /\ base >= 2 /\ next_seq_num = base

\* C4: a fin at any offset is answered by exactly one FIN/ACK with the same
\* offset, ends the loop in Done with the window and congestion state as
\* they were, and nothing is sent afterwards.
C4_FinHandshake ==
    [][/\ FinStep =>
             /\ Len(out') = 1
             /\ out'[1].kind = "FIN/ACK"
             /\ out'[1].seq = ack_id'
             /\ segChan' = segChan \cup {out'[1]}
             /\ pc' = "done"
             /\ UNCHANGED <<cwnd, ssthresh, dup_acks, in_fast_recovery,
                            prev_ack_id, base, next_seq_num>>
       /\ pc = "done" => (pc' = "done" /\ segChan' = segChan /\ out' = out)]_vars

\* a fin at a non-zero offset closed a Reno transfer that was in fast recovery
C4_Witness ==
    /\ pc = "done"
    /\ Reno
    /\ in_fast_recovery
    /\ ack_id = 2
    /\ out = <<[kind |-> "FIN/ACK", seq |-> 2, idx |-> -1]>>

\* C5: the loop stops only through the fin handler, after sending FIN/ACK.
C5_StopsOnlyViaDone ==
    pc \in {"done", "exited"} =>
        (pc = "done" /\ event = "fin" /\ Len(out) = 1 /\ out[1].kind = "FIN/ACK")

\* C6: outside fast recovery the third duplicate ack in a row halves into
\* ssthresh, sets cwnd = ssthresh + 3, clears the counter, enters fast
\* recovery and retransmits the segment at base once; the first two only
\* count.  From cwnd = 10, ssthresh = 64: ssthresh = 5, cwnd = 8.
C6_TripleDupAck ==
    [][(Reno /\ AckStep /\ prev_ack_id # None /\ ack_id' = prev_ack_id[1]
          /\ ~in_fast_recovery) =>
         /\ dup_acks = 2 =>
               /\ ssthresh' = Max(cwnd.n \div (2 * cwnd.d), 1)
               /\ cwnd' = [n |-> ssthresh' + 3, d |-> 1]
               /\ dup_acks' = 0
               /\ in_fast_recovery'
               /\ SentOnlySegment(out', base)
               /\ base' = base
               /\ next_seq_num' = next_seq_num
               /\ (cwnd = Float(10) /\ ssthresh = 64) =>
                      (ssthresh' = 5 /\ cwnd' = Float(8))
         /\ dup_acks # 2 =>
               /\ dup_acks < 2
               /\ dup_acks' = dup_acks + 1
               /\ out' = <<>>
               /\ UNCHANGED <<cwnd, ssthresh, in_fast_recovery, base,
                              next_seq_num, prev_ack_id, packet_start_times,
                              packet_delays>>]_vars

\* fast recovery was entered from cwnd = 10, ssthresh = 64
C6_Witness ==
    /\ Reno
    /\ event = "dup_ack"
    /\ before = [cwnd |-> Float(10), ssthresh |-> 64]
    /\ in_fast_recovery
    /\ dup_acks = 0
    /\ ssthresh = 5
    /\ cwnd = Float(8)
    /\ SentOnlySegment(out, base)

\* C7: a timeout of the Reno sender halves cwnd into ssthresh, sets
\* cwnd = 1.0, clears the counter and fast recovery, pulls next_seq_num back
\* to base and retransmits the segment at base.  From cwnd = 20: ssthresh = 10.
C7_TimeoutBackoff ==
    [][(Reno /\ TimeoutStep) =>
         /\ ssthresh' = Max(cwnd.n \div (2 * cwnd.d), 1)
         /\ cwnd' = [n |-> 1, d |-> 1]
         /\ dup_acks' = 0
         /\ ~in_fast_recovery'
         /\ next_seq_num' = base
         /\ base' = base
         /\ SentOnlySegment(out', base)
         /\ cwnd = Float(20) => ssthresh' = 10]_vars

\* a timeout came at cwnd = 20
C7_Witness ==
    /\ Reno
    /\ event = "timeout"
    /\ before.cwnd = Float(20)
    /\ ssthresh = 10
    /\ cwnd = Float(1)
    /\ next_seq_num = base
    /\ SentOnlySegment(out, base)

\* C8: after N new acks in a row from the start, cwnd = 1 + N as long as
\* 1 + N <= ssthresh, with ssthresh still 64 and no duplicate counted.
C8_SlowStartLinear ==
    (Reno /\ run_len >= 1 /\ 1 + run_len <= INITIAL_SSTHRESH) =>
        (cwnd = Float(1 + run_len) /\ ssthresh = INITIAL_SSTHRESH /\ dup_acks = 0
           /\ ~in_fast_recovery)

\* eight new acks in a row
C8_Witness ==
    Reno /\ run_len = 8 /\ event = "new_ack" /\ cwnd = Float(9)

CeilDiv(a, b) == (a + b - 1) \div b

RECURSIVE SumLens(_, _)
SumLens(t, k) == IF k = 0 THEN 0 ELSE t[k].len + SumLens(t, k - 1)

C11_SendTimeSetOnce ==
    [][Reno =>
         \A s \in DOMAIN packet_start_times :
             /\ s \in DOMAIN packet_start_times'
             /\ packet_start_times'[s] = packet_start_times[s]]_vars

\* a step of the Reno loop in which the third duplicate ack outside fast
\* recovery was handled: the triple-duplicate-ack rule halved ssthresh
EntersRecovery == Reno /\ AckStep /\ event' = "dup_ack" /\ dup_acks' = 0

\* C12, as stated: fast recovery is entered again only after a new ack,
\* whatever duplicate acks and timeouts came in between.
C12_ReentryOnlyAfterNewAck ==
    [][EntersRecovery => recovery_hist = "none"]_vars

\* C12, amended: between two entries into fast recovery there is a new ack
\* or a timeout; a duplicate ack that arrives in fast recovery never enters
\* it again and never halves ssthresh.
C12_ReentryOnlyAfterNewAckOrTimeout ==
    [][/\ EntersRecovery =>
             /\ recovery_hist \notin {"entered", "reentered"}
             /\ ~in_fast_recovery
             /\ in_fast_recovery'
       /\ (Reno /\ AckStep /\ in_fast_recovery /\ event' = "dup_ack") =>
             /\ ssthresh' = ssthresh
             /\ recovery_hist' = recovery_hist
             /\ dup_acks' = dup_acks + 1]_vars

\* fast recovery was entered, a timeout left it, and three more duplicate
\* acks entered it again with no new ack in between: ssthresh halved thrice
C12_Witness ==
    /\ Reno
    /\ event = "dup_ack"
    /\ in_fast_recovery
    /\ recovery_hist = "reentered"
    /\ dup_acks = 0
    /\ before.cwnd = Float(1)
    /\ before.ssthresh < INITIAL_SSTHRESH
    /\ ssthresh = 1
    /\ cwnd = Float(4)

\* C13: a new ack in fast recovery deflates cwnd to exactly ssthresh, leaves
\* fast recovery, clears the counter, records the offset and keeps ssthresh;
\* a duplicate ack in fast recovery adds exactly 1 to cwnd and keeps
\* ssthresh and the flag.
C13_RecoveryAcks ==
    [][(Reno /\ AckStep /\ in_fast_recovery) =>
         /\ event' = "new_ack" =>
               /\ cwnd' = [n |-> ssthresh, d |-> 1]
               /\ ~in_fast_recovery'
               /\ dup_acks' = 0
               /\ prev_ack_id' = <<ack_id'>>
               /\ ssthresh' = ssthresh
         /\ event' = "dup_ack" =>
               /\ cwnd'.d = cwnd.d
               /\ cwnd'.n = cwnd.n + cwnd.d
               /\ ssthresh' = ssthresh
               /\ in_fast_recovery'
               /\ prev_ack_id' = prev_ack_id]_vars

\* a new ack ended a fast recovery that two more duplicate acks had inflated
C13_Witness ==
    /\ Reno
    /\ event = "new_ack"
    /\ before.cwnd = Float(before.ssthresh + 5)
    /\ before.ssthresh >= 2
    /\ cwnd = Float(ssthresh)
    /\ ssthresh = before.ssthresh
    /\ ~in_fast_recovery
    /\ dup_acks = 0
    /\ prev_ack_id = <<ack_id>>

\* a step that handled a non-fin datagram whose offset is at or behind the
\* offset of the segment at base
StaleAckStep == AckStep /\ ack_id' <= SeqIdAt(base)

\* C14, as stated: such a datagram leaves base and the delay samples alone,
\* and the Reno sender takes it as a new ack or as a duplicate ack, so that
\* cwnd or dup_acks changes.
C14_StaleAckAlwaysClassified ==
    [][StaleAckStep =>
         /\ base' = base
         /\ packet_delays' = packet_delays
         /\ Reno => /\ event' \in {"new_ack", "dup_ack"}
                    /\ (cwnd' # cwnd \/ dup_acks' # dup_acks)]_vars

\* C14, amended: such a datagram leaves base and the delay samples alone; the
\* Reno sender takes it as a new ack when its offset is above prev_ack_id (or
\* none is set), changing cwnd, as a duplicate ack when it equals
\* prev_ack_id, changing dup_acks, and otherwise as neither, leaving the
\* congestion state as it was.
C14_StaleAckClassifiedByOffset ==
    [][StaleAckStep =>
         /\ base' = base
         /\ packet_delays' = packet_delays
         /\ Reno =>
               IF prev_ack_id = <<>> THEN event' = "new_ack" /\ cwnd' # cwnd
               ELSE IF ack_id' > prev_ack_id[1]
                    THEN event' = "new_ack" /\ cwnd' # cwnd /\ dup_acks' = 0
               ELSE IF ack_id' = prev_ack_id[1]
                    THEN event' = "dup_ack" /\ dup_acks' # dup_acks
               ELSE /\ event' = "old_ack"
                    /\ UNCHANGED <<cwnd, ssthresh, dup_acks, in_fast_recovery,
                                   prev_ack_id>>]_vars

\* an ack of offset 1 came late, after the window had moved on and an ack
\* with a higher offset had been handled: it changed nothing
C14_Witness ==
    /\ Reno
    /\ pc = "run"
    /\ event = "old_ack"
    /\ ack_id = 1
    /\ base >= 1
    /\ ack_id < SeqIdAt(base)
    /\ prev_ack_id # <<>>
    /\ packet_delays # <<>>
    /\ before = [cwnd |-> cwnd, ssthresh |-> ssthresh]

\* C15: every delay sample belongs to a segment base has moved over and no
\* segment has two, so there are at most base samples, in both senders.
C15_OneDelayPerSegment ==
    pc # "plan" =>
        /\ Len(packet_delays) <= base
        /\ \A k \in 1..Len(packet_delays) :
               /\ \E i \in 0..(base - 1) : SeqIdAt(i) = packet_delays[k]
               /\ \A j \in 1..Len(packet_delays) :
                      packet_delays[j] = packet_delays[k] => j = k

\* the first segment was retransmitted and its ack came twice: one sample
C15_Witness ==
    /\ Reno
    /\ event = "dup_ack"
    /\ base >= 2
    /\ Len(packet_delays) = base
    /\ packet_start_times[SeqIdAt(0)] = "retx"

\* C16: a receive timeout, however many came before it in a row, leaves the
\* sender running with next_seq_num back at base, so that the fill loop
\* sends from base again (the Reno sender has already resent the segment at
\* base); no timeout ends the loop.
C16_TimeoutsRetriedWithoutLimit ==
    [][/\ TimeoutStep =>
             /\ pc' = "run"
             /\ base' = base
             /\ next_seq_num' = base
             /\ next_seq_num' < base' + Window'
             /\ next_seq_num' < NTransfers
             /\ timeouts' = IF timeouts < MaxTimeouts THEN timeouts + 1 ELSE timeouts
             /\ Reno => SentOnlySegment(out', base)
       /\ (pc = "run" /\ pc' \in {"aborted", "done", "exited"}) =>
             event' # "timeout"]_vars

\* more timeouts in a row than MAX_TIMEOUTS, and the sender still runs
C16_Witness ==
    /\ timeouts > MAX_TIMEOUTS
    /\ pc = "run"
    /\ event = "timeout"
    /\ next_seq_num = base
    /\ Reno
    /\ SentOnlySegment(out, base)

\* C17: next_seq_num moves forward only by one, with the segment that was at
\* the frontier sent, and only when that segment exists and lies inside the
\* window as the sender counts it at that moment; the fill loop sends in
\* strictly increasing order of offset.
C17_SendOnlyWithRoom ==
    [][/\ next_seq_num' > next_seq_num =>
             /\ next_seq_num' = next_seq_num + 1
             /\ next_seq_num < NTransfers
             /\ next_seq_num < base' + Window'
             /\ SentOnlySegment(out', next_seq_num)
       /\ event' = "send" =>
             /\ next_seq_num' = next_seq_num + 1
             /\ next_seq_num < base + Window
             /\ UNCHANGED <<base, cwnd>>
       /\ (event = "send" /\ event' = "send") =>
             /\ out'[1].idx = out[1].idx + 1
             /\ out'[1].seq > out[1].seq]_vars

\* the Reno fill loop has filled a window of three segments, in order
C17_Witness ==
    /\ Reno
    /\ event = "send"
    /\ IntPart(cwnd) = 3
    /\ base >= 1
    /\ next_seq_num = base + 3
    /\ out = <<DataPkt(next_seq_num - 1)>>

\* C18: in the Reno sender dup_acks is 0, 1 or 2 whenever in_fast_recovery is
\* false, and 0 right after a new ack and right after a timeout.
C18_DupAcksBelowThree ==
    Reno =>
        /\ dup_acks >= 0
        /\ ~in_fast_recovery => dup_acks <= 2
        /\ event \in {"new_ack", "timeout"} => (dup_acks = 0 /\ ~in_fast_recovery)

\* fast recovery was left by a timeout, and two duplicate acks were counted
\* from 0 again
C18_Witness ==
    /\ Reno
    /\ ~in_fast_recovery
    /\ recovery_hist = "timed_out"
    /\ event = "dup_ack"
    /\ dup_acks = 2

\* every segment behind base lies below prev_ack_id, and the segment at base,
\* if there is one, does not
BaseSplitsAtPrevAck ==
    (pc # "plan" /\ prev_ack_id # <<>>) =>
        /\ \A i \in 0..(base - 1) : SeqIdAt(i) < prev_ack_id[1]
        /\ base < NTransfers => SeqIdAt(base) >= prev_ack_id[1]

\* C19: in the Reno sender prev_ack_id is the largest offset among the
\* non-fin datagrams handled so far: the first one sets it, each later one
\* raises it to the larger of the two, nothing else changes it; and base
\* splits the segments at it.
C19_PrevAckIsMaximum ==
    [][Reno =>
         /\ AckStep =>
               prev_ack_id' = <<IF prev_ack_id = <<>> THEN ack_id'
                                ELSE IF ack_id' > prev_ack_id[1] THEN ack_id'
                                ELSE prev_ack_id[1]>>
         /\ ~AckStep => prev_ack_id' = prev_ack_id
         /\ BaseSplitsAtPrevAck']_vars

\* with segments of two bytes, ack 1 moved base to the segment at offset 2,
\* and the ack 0 that came after it changed nothing
C19_Witness ==
    /\ Reno
    /\ pc = "run"
    /\ mss = 2
    /\ event = "old_ack"
    /\ ack_id = 0
    /\ prev_ack_id = <<1>>
    /\ base = 1
    /\ SeqIdAt(base) = 2

\* the highest index among the segments handed to sendto so far, -1 if none:
\* every send of a segment leaves an entry in packet_start_times
HighestSent ==
    LET sent == {i \in 0..(NTransfers - 1) : SeqIdAt(i) \in DOMAIN packet_start_times}
    IN  IF sent = {} THEN -1 ELSE CHOOSE i \in sent : \A j \in sent : j <= i

\* C20: against the receiver of the protocol base never passes a segment
\* that was never transmitted, in both senders, also when base has passed
\* next_seq_num.
C20_BaseWithinSent ==
    pc # "plan" => base <= 1 + HighestSent

\* a late ack moved base past next_seq_num, up to the last segment sent
C20_Witness ==
    /\ Reno
    /\ event = "new_ack"
    /\ base > next_seq_num
    /\ base = 1 + HighestSent
    /\ base < NTransfers

=============================================================================
